---- MODULE Spec2Model ----
(***************************************************************************)
(* A model of package httpx: the middleware Chain (middleware.go), the     *)
(* scoped router Mux (mux.go), the status-carrying error (error.go) and    *)
(* the boundary adaptor that turns a Handler's returned error into a       *)
(* response write (mux.go).                                                *)
(*                                                                         *)
(* Go slices are modelled as they are in the language: a slice is a header *)
(* (backing array, length) over an array of fixed capacity that lives in a *)
(* heap, so that two headers can share one array and append can write in   *)
(* place.  Strings that the code indexes (route patterns, prefixes) are    *)
(* sequences of one-character strings.                                     *)
(***************************************************************************)
EXTENDS Integers, Sequences, FiniteSets, TLC

VARIABLES
    heap,       \* backing arrays of []Middleware: array id -> <<slot, ...>>
    chains,     \* Chain values the caller holds, in creation order
    muxes,      \* *Mux objects, in creation order
    engines,    \* chi.Mux matching engines: registrations and hooks
    requests,   \* requests being served or served: position, visits, writes
    panicked,   \* "none", or the run-time panic that ended the program
    last        \* the operation the last step performed (receiver, arguments)

vars == <<heap, chains, muxes, engines, requests, panicked, last>>

----------------------------------------------------------------------------
(* Bounds of the model *)

MaxChains == 3      \* Chain values the caller creates
MaxChainLen == 3    \* middlewares in one Chain
MaxMuxes == 3       \* Mux instances: the root and those derived from it
MaxMws == 4         \* middlewares in one Mux's list
MaxRoutes == 1      \* registrations in the matching engine
MaxRequests == 1    \* handlers invoked / requests served
MaxHookCalls == 2   \* calls of NotFound and MethodNotAllowed
MaxBuilt == 2       \* handlers one caller builds (Then, StripPrefix) and keeps
MaxInFlight == 2    \* requests being served at the same time

----------------------------------------------------------------------------
(* Inputs: middlewares, end handlers, patterns, requests *)

\* Middleware values the caller passes.  m1 and m2 call their next handler once
\* and return what it returns; mDeny returns a status error without calling it.
PassMiddlewares == {"m1", "m2"}
Middlewares == PassMiddlewares \cup {"mDeny"}

\* The variadic argument lists the caller passes.
ChainArgs == {<<>>, <<"m1">>, <<"m2">>}
UseArgs == {<<"m1">>}
WithArgs == {<<>>, <<"m2">>}
ServeUseArgs == {<<"m1">>, <<"m2">>, <<"mDeny">>}

NoError == [kind |-> "nil"]

\* errors.New(message): an error without a Status method.
PlainError(message) == [kind |-> "plain", message |-> message]

\* Error(status, message): &statusError{message, status}.
Error(status, message) == [kind |-> "status", message |-> message, status |-> status]

\* err.(StatusError): true when the dynamic type has Error() and Status().
IsStatusError(err) == err.kind = "status"

\* End handlers.  hRedirect is RedirectHandler(url, 302): writes, returns nil.
\* hNotFound is ErrorHandler(404, "not found"); hTeapot is ErrorHandler(418, ...);
\* hPlain is a caller's handler returning a plain error.
Handlers == {"hRedirect", "hNotFound", "hTeapot", "hPlain"}

HandlerWrites(h) ==
    IF h = "hRedirect" THEN <<[by |-> "handler", code |-> 302, body |-> "Found"]>>
    ELSE <<>>

HandlerReturn(h) ==
    CASE h = "hRedirect" -> NoError
      [] h = "hNotFound" -> Error(404, "not found")
      [] h = "hTeapot"   -> Error(418, "teapot")
      [] h = "hPlain"    -> PlainError("boom")

\* What a middleware does when entered: "next" = call the wrapped handler and
\* return its result; otherwise return without calling it.
MiddlewareCallsNext(m) == m \in PassMiddlewares

MiddlewareReturn(m) == Error(401, "denied")

----------------------------------------------------------------------------
(* Strings as sequences of characters *)

Slash == "/"

S_v1 == <<"/", "v", "1">>
S_api == <<"/", "a", "p", "i">>
S_x == <<"x">>

\* Pattern arguments given to Route, with and without a trailing '/'.
RoutePatterns == {S_v1, S_v1 \o <<Slash>>, S_api, S_api \o <<Slash>>, S_x, <<>>}

\* Pattern arguments given to Handle / Method.
S_u == <<"/", "u">>
HandlePatterns == {S_u, S_x}

Methods == {"GET", "POST"}

----------------------------------------------------------------------------
(* Go slices over a heap of backing arrays *)

Nil == "nil"

\* A slice header.  arr = 0 is a slice without backing array (capacity 0).
Slice(arr, len) == [arr |-> arr, len |-> len]

EmptySlice == Slice(0, 0)

Cap(h, s) == IF s.arr = 0 THEN 0 ELSE Len(h[s.arr])

\* The elements s[0:len(s)].
Contents(h, s) == IF s.arr = 0 THEN <<>> ELSE SubSeq(h[s.arr], 1, s.len)

\* make([]Middleware, len, cap): a fresh zeroed array.
Make(h, len, cap) ==
    IF cap = 0
    THEN [heap |-> h, slice |-> EmptySlice]
    ELSE [heap |-> Append(h, [k \in 1..cap |-> Nil]), slice |-> Slice(Len(h) + 1, len)]

\* Capacities the allocator hands out for 8-byte elements (size classes 8..128).
SizeClasses == {1, 2, 3, 4, 6, 8, 10, 12, 14, 16}

RoundUpSize(n) == IF \E c \in SizeClasses : c >= n
                  THEN CHOOSE c \in SizeClasses : c >= n /\ \A d \in SizeClasses : d >= n => c <= d
                  ELSE n

\* growslice: the capacity of the array append allocates when the old one is full.
GrowCap(oldCap, needed) ==
    RoundUpSize(IF needed > 2 * oldCap THEN needed ELSE 2 * oldCap)

\* append(s, xs...): in place when the capacity suffices, else into a new array.
GoAppend(h, s, xs) ==
    LET n == s.len + Len(xs) IN
    IF Len(xs) = 0 THEN [heap |-> h, slice |-> s]
    ELSE IF n <= Cap(h, s)
    THEN [heap  |-> [h EXCEPT ![s.arr] =
                        [k \in 1..Len(h[s.arr]) |->
                            IF k > s.len /\ k <= n THEN xs[k - s.len] ELSE h[s.arr][k]]],
          slice |-> Slice(s.arr, n)]
    ELSE LET c == GrowCap(Cap(h, s), n)
             old == Contents(h, s)
         IN [heap  |-> Append(h, [k \in 1..c |->
                            IF k <= s.len THEN old[k]
                            ELSE IF k <= n THEN xs[k - s.len] ELSE Nil]),
             slice |-> Slice(Len(h) + 1, n)]

\* copy(dst, src): min(len(dst), len(src)) elements, into dst's array.
GoCopy(h, dst, src) ==
    LET n == IF dst.len < src.len THEN dst.len ELSE src.len
        from == Contents(h, src)
    IN IF n = 0 THEN h
       ELSE [h EXCEPT ![dst.arr] =
                [k \in 1..Len(h[dst.arr]) |-> IF k <= n THEN from[k] ELSE h[dst.arr][k]]]

\* The slice a caller passes as f(s...): its elements xs in an array that has
\* room for spare more (f(a, b, c) passes a fresh array of exactly a, b, c).
Variadic(h, xs, spare) ==
    IF Len(xs) = 0 THEN [heap |-> h, slice |-> EmptySlice]
    ELSE [heap  |-> Append(h, xs \o [k \in 1..spare |-> Nil]),
          slice |-> Slice(Len(h) + 1, Len(xs))]

----------------------------------------------------------------------------
(* middleware.go: Chain *)

\* A Handler value: the middlewares wrapped around it, outermost first, and the
\* end handler.  An end handler alone has no wrapping.
EndHandler(h) == [mws |-> <<>>, h |-> h]

\* m(h): the Handler a middleware returns for the handler it is given.
ApplyMiddleware(m, handler) == [mws |-> <<m>> \o handler.mws, h |-> handler.h]

\* NewChain(middlewares...): keeps the slice it is given.
NewChain(middlewares) ==
    IF middlewares.len = 0
    THEN [middlewares |-> EmptySlice]
    ELSE [middlewares |-> middlewares]

RECURSIVE ThenLoopForward(_, _, _)
\* A composition that applies the middlewares first to last: mn(...m1(h)).
ThenLoopForward(ms, i, handler) ==
    IF i < 1 THEN handler
    ELSE ApplyMiddleware(ms[i], ThenLoopForward(ms, i - 1, handler))

RECURSIVE ThenLoop(_, _, _)
\* for i := len-1; i >= 0; i-- { h = c.middlewares[i](h) }   (i is 1-based here)
ThenLoop(ms, i, handler) ==
    IF i < 1 THEN handler
    ELSE ThenLoop(ms, i - 1, ApplyMiddleware(ms[i], handler))

\* Chain.Then(h).
\* A Then that wraps one fixed handler, whatever its argument.
ThenDefault(h, c, handler) ==
    IF c.middlewares.len = 0 THEN EndHandler("hRedirect")
    ELSE ThenLoop(Contents(h, c.middlewares), c.middlewares.len, EndHandler("hRedirect"))

Then(h, c, handler) ==
    IF c.middlewares.len = 0 THEN handler
    ELSE ThenLoop(Contents(h, c.middlewares), c.middlewares.len, handler)

\* An Append that appends to the receiver's own slice instead of a fresh one.
ChainAppendShared(h, c, middlewares) ==
    LET a == GoAppend(h, c.middlewares, middlewares)
    IN [heap |-> a.heap, chain |-> [middlewares |-> a.slice]]

\* Chain.Append(middlewares...): a fresh array of exactly the joint length.
ChainAppend(h, c, middlewares) ==
    LET newCons == Make(h, 0, c.middlewares.len + Len(middlewares))
        a == GoAppend(newCons.heap, newCons.slice, Contents(h, c.middlewares))
        b == GoAppend(a.heap, a.slice, middlewares)
    IN [heap |-> b.heap, chain |-> [middlewares |-> b.slice]]

\* Chain.Extend(chain).
\* An Extend that appends the receiver's middlewares to the argument's.
ChainExtendSwapped(h, c, chain) == ChainAppend(h, chain, Contents(h, c.middlewares))

ChainExtend(h, c, chain) == ChainAppend(h, c, Contents(h, chain.middlewares))

----------------------------------------------------------------------------
(* mux.go: Mux *)

InternalServerError == 500

\* http.Error(w, error, code): one status line and one body line on the response.
HttpError(message, code) == [by |-> "adaptor", code |-> code, body |-> message]

\* An adaptor without the fallback: only a status error is answered.
adaptorStatusOnly(err) ==
    IF err.kind /= "nil" /\ IsStatusError(err)
    THEN <<HttpError(err.message, err.status)>>
    ELSE <<>>

\* An adaptor that also answers a handler that returned no error.
adaptorAlwaysWrites(err) ==
    IF err.kind /= "nil"
    THEN (IF IsStatusError(err) THEN <<HttpError(err.message, err.status)>> ELSE <<>>)
         \o <<HttpError(err.message, InternalServerError)>>
    ELSE <<HttpError("", InternalServerError)>>

\* The response writes of adaptor's closure once next.ServeHTTP returned err.
adaptor(err) ==
    IF err.kind /= "nil"
    THEN (IF IsStatusError(err) THEN <<HttpError(err.message, err.status)>> ELSE <<>>)
         \o <<HttpError(err.message, InternalServerError)>>
    ELSE <<>>

\* A *Mux.  parent, via and pattern record how the instance was derived; the
\* code keeps only chi, middlewares and prefix.
MuxObject(chi, middlewares, prefix, parent, via, pattern) ==
    [chi |-> chi, middlewares |-> middlewares, prefix |-> prefix,
     parent |-> parent, via |-> via, pattern |-> pattern]

\* With that hands the receiver's slice to the new instance without copying it.
\* A With whose instance routes on the first engine made, not the receiver's.
MuxWithFirstEngine(h, m, parent, middlewares) ==
    LET mws == Make(h, m.middlewares.len, m.middlewares.len)
        copied == GoCopy(mws.heap, mws.slice, m.middlewares)
        a == GoAppend(copied, mws.slice, middlewares)
    IN [heap |-> a.heap,
        mux  |-> MuxObject(1, a.slice, m.prefix, parent, "With", <<>>)]

MuxWithAliased(h, m, parent, middlewares) ==
    LET a == GoAppend(h, m.middlewares, middlewares)
    IN [heap |-> a.heap,
        mux  |-> MuxObject(m.chi, a.slice, m.prefix, parent, "With", <<>>)]

\* Mux.With(middlewares...): make, copy, append, and a new Mux on the same chi.
MuxWith(h, m, parent, middlewares) ==
    LET mws == Make(h, m.middlewares.len, m.middlewares.len)
        copied == GoCopy(mws.heap, mws.slice, m.middlewares)
        a == GoAppend(copied, mws.slice, middlewares)
    IN [heap |-> a.heap,
        mux  |-> MuxObject(m.chi, a.slice, m.prefix, parent, "With", <<>>)]

\* A normalisation that appends '/' to every pattern.
NormalizeAlways(pattern) == pattern \o <<Slash>>

\* Route's first statement: if pattern[len(pattern)-1] != '/' { pattern += "/" }
NormalizePattern(pattern) ==
    IF pattern[Len(pattern)] /= Slash THEN pattern \o <<Slash>> ELSE pattern

\* adaptor(NewChain(m.middlewares...).Then(handler)): the handler Handle and
\* Method give to chi.
\* A registration that leaves the instance's middlewares out.
RegisteredBare(h, m, handler) == EndHandler(handler)

Registered(h, m, handler) == Then(h, NewChain(m.middlewares), EndHandler(handler))

\* A chi.Mux: the registrations in the order made, and its two hooks.  nfArg and
\* mnaArg record the argument of the latest NotFound / MethodNotAllowed call.
NewEngine ==
    [routes |-> <<>>, notFound |-> "default", methodNotAllowed |-> "default",
     nfArg |-> "none", mnaArg |-> "none", hookCalls |-> 0]

Op(op, recv, made) == [op |-> op, recv |-> recv, made |-> made]

----------------------------------------------------------------------------
(* The state after start-up: nothing constructed yet *)

Init ==
    /\ heap = <<>>
    /\ chains = <<>>
    /\ muxes = <<>>
    /\ engines = <<>>
    /\ requests = <<>>
    /\ panicked = "none"
    /\ last = Op("start", 0, 0)

Running == panicked = "none"

RECURSIVE FirstUse(_, _)
\* The arrays the slices refer to, in the order of their first reference.
FirstUse(slices, seen) ==
    IF slices = <<>> THEN seen
    ELSE LET a == Head(slices).arr
         IN FirstUse(Tail(slices),
                     IF a = 0 \/ \E k \in 1..Len(seen) : seen[k] = a
                     THEN seen ELSE Append(seen, a))

Moved(order, s) ==
    IF s.arr = 0 THEN s ELSE Slice(CHOOSE k \in 1..Len(order) : order[k] = s.arr, s.len)

\* The next state's heap, chains and muxes.  Arrays no chain and no mux refers
\* to are garbage and are dropped; an array's id is its address, which means
\* nothing but identity, so the reachable arrays are numbered in the order in
\* which the chains and muxes refer to them.
Commit(h, cs, ms) ==
    LET order == FirstUse([k \in 1..Len(cs) |-> cs[k].middlewares]
                          \o [k \in 1..Len(ms) |-> ms[k].middlewares], <<>>)
    IN /\ heap' = [k \in 1..Len(order) |-> h[order[k]]]
       /\ chains' = [k \in 1..Len(cs) |-> [cs[k] EXCEPT !.middlewares = Moved(order, @)]]
       /\ muxes' = [k \in 1..Len(ms) |-> [ms[k] EXCEPT !.middlewares = Moved(order, @)]]

----------------------------------------------------------------------------
(* Invoking a Handler *)

\* Serving in which a middleware that returns early does not stop the chain.
RECURSIVE ServeThrough(_, _)
ServeThrough(handler, pos) ==
    IF pos > Len(handler.mws)
    THEN [visits |-> <<handler.h>>,
          writes |-> HandlerWrites(handler.h),
          err    |-> HandlerReturn(handler.h)]
    ELSE LET m == handler.mws[pos]
             r == ServeThrough(handler, pos + 1)
         IN [visits |-> <<m>> \o r.visits, writes |-> r.writes,
             err |-> IF MiddlewareCallsNext(m) THEN r.err ELSE MiddlewareReturn(m)]

RECURSIVE Serve(_, _)
\* handler.ServeHTTP(w, r), a synchronous call: control enters the middlewares
\* from the outermost inwards (pos is the next one), each either calling its
\* next handler and returning that result, or returning its own; then the end
\* handler.  The result: what was entered, what was written, the error returned.
Serve(handler, pos) ==
    IF pos > Len(handler.mws)
    THEN [visits |-> <<handler.h>>,
          writes |-> HandlerWrites(handler.h),
          err    |-> HandlerReturn(handler.h)]
    ELSE LET m == handler.mws[pos] IN
         IF MiddlewareCallsNext(m)
         THEN LET r == Serve(handler, pos + 1)
              IN [visits |-> <<m>> \o r.visits, writes |-> r.writes, err |-> r.err]
         ELSE [visits |-> <<m>>, writes |-> <<>>, err |-> MiddlewareReturn(m)]

\* A handler the caller holds or a request the engine dispatched: the handler,
\* where it came from, and once invoked (pc = "done") the result.
Request(handler, from, pc, result) ==
    [handler |-> handler, from |-> from, pc |-> pc,
     visits |-> result.visits, writes |-> result.writes, err |-> result.err]

NoResult == [visits |-> <<>>, writes |-> <<>>, err |-> NoError]

----------------------------------------------------------------------------
(* Caller's operations on chains *)

\* c := NewChain(s...), s a slice of the caller's with room for spare more
CallNewChain(xs, spare) ==
    /\ Running
    /\ Len(chains) < MaxChains
    /\ LET v == Variadic(heap, xs, spare)
       IN Commit(v.heap, Append(chains, NewChain(v.slice)), muxes)
    /\ last' = Op("NewChain", 0, Len(chains) + 1)
    /\ UNCHANGED <<engines, requests, panicked>>

\* c2 := chains[i].Append(xs...)
CallAppend(i, xs) ==
    /\ Running
    /\ Len(chains) < MaxChains
    /\ chains[i].middlewares.len + Len(xs) <= MaxChainLen
    /\ LET r == ChainAppend(heap, chains[i], xs)
       IN Commit(r.heap, Append(chains, r.chain), muxes)
    /\ last' = Op("Append", i, Len(chains) + 1)
    /\ UNCHANGED <<engines, requests, panicked>>

\* c2 := chains[i].Extend(chains[j])
CallExtend(i, j) ==
    /\ Running
    /\ Len(chains) < MaxChains
    /\ chains[i].middlewares.len + chains[j].middlewares.len <= MaxChainLen
    /\ LET r == ChainExtend(heap, chains[i], chains[j])
       IN Commit(r.heap, Append(chains, r.chain), muxes)
    /\ last' = Op("Extend", i, Len(chains) + 1)
    /\ UNCHANGED <<engines, requests, panicked>>

\* hh := chains[i].Then(h); the caller keeps hh and may invoke it later.
\* from records the chain, the list it held at the call, and h.
ThenCall(i, h, bound) ==
    /\ Running
    /\ Len(requests) < bound
    /\ requests' = Append(requests,
            Request(Then(heap, chains[i], EndHandler(h)),
                    [chain |-> i, list |-> Contents(heap, chains[i].middlewares), h |-> h],
                    "built", NoResult))
    /\ last' = Op("Then", i, Len(requests) + 1)
    /\ UNCHANGED <<heap, chains, muxes, engines, panicked>>

\* The same call in a run that keeps at most MaxRequests handlers.
CallThen(i, h) == ThenCall(i, h, MaxRequests)

\* hh.ServeHTTP(w, r): the caller invokes a handler Then returned.
Invoke(k) ==
    /\ Running
    /\ requests[k].pc = "built"
    /\ requests' = [requests EXCEPT ![k] =
            Request(@.handler, @.from, "done", Serve(@.handler, 1))]
    /\ last' = Op("Invoke", k, 0)
    /\ UNCHANGED <<heap, chains, muxes, engines, panicked>>

\* c := NewChain(s...) with s a slice the caller keeps: the first chain made.
\* The variadic call passes s itself, so the caller's s and c.middlewares are
\* one slice.
NewChainOfSlice(xs, spare) ==
    /\ chains = <<>>
    /\ Len(xs) > 0
    /\ CallNewChain(xs, spare)

\* s[k] = m: the caller writes to an element of the slice it passed to NewChain.
CallerWrite(k, m) ==
    /\ Running
    /\ Len(chains) > 0
    /\ k \in 1..chains[1].middlewares.len
    /\ heap[chains[1].middlewares.arr][k] /= m
    /\ heap' = [heap EXCEPT ![chains[1].middlewares.arr][k] = m]
    /\ last' = Op("Write", 1, 0)
    /\ UNCHANGED <<chains, muxes, engines, requests, panicked>>

----------------------------------------------------------------------------
(* Caller's operations on routers *)

\* The callback argument of Group and Route: nil, or a function.  What a
\* callback does with the instance it is given is the caller's operations on
\* that instance, which are the steps that follow.
Fns == {"nil", "fn"}

\* m := NewMux()
CallNewMux ==
    /\ Running
    /\ muxes = <<>>
    /\ engines' = Append(engines, NewEngine)
    /\ muxes' = Append(muxes, MuxObject(Len(engines) + 1, EmptySlice, <<>>, 0, "NewMux", <<>>))
    /\ last' = Op("NewMux", 0, Len(muxes) + 1)
    /\ UNCHANGED <<heap, chains, requests, panicked>>

\* m := NewMux() once more: a second root, with an engine of its own.
NewMuxAgain ==
    /\ Running
    /\ muxes /= <<>>
    /\ Len(muxes) < MaxMuxes
    /\ Len(engines) < 2
    /\ engines' = Append(engines, NewEngine)
    /\ muxes' = Append(muxes, MuxObject(Len(engines) + 1, EmptySlice, <<>>, 0, "NewMux", <<>>))
    /\ last' = Op("NewMux", 0, Len(muxes) + 1)
    /\ UNCHANGED <<heap, chains, requests, panicked>>

\* A Use that rewraps the routes its instance registered earlier.
UseRetroactive(i, xs, bound) ==
    /\ Running
    /\ muxes[i].middlewares.len + Len(xs) <= bound
    /\ LET a == GoAppend(heap, muxes[i].middlewares, xs)
           e == muxes[i].chi
       IN
        /\ Commit(a.heap, chains, [muxes EXCEPT ![i].middlewares = a.slice])
        /\ engines' = [engines EXCEPT ![e].routes =
                [k \in 1..Len(engines[e].routes) |->
                    IF engines[e].routes[k].by = i
                    THEN [engines[e].routes[k] EXCEPT !.handler =
                            [mws |-> Contents(a.heap, a.slice), h |-> @.h]]
                    ELSE engines[e].routes[k]]]
    /\ last' = Op("Use", i, 0)
    /\ UNCHANGED <<requests, panicked>>

\* muxes[i].Use(xs...)
Use(i, xs, bound) ==
    /\ Running
    /\ muxes[i].middlewares.len + Len(xs) <= bound
    /\ LET a == GoAppend(heap, muxes[i].middlewares, xs)
       IN Commit(a.heap, chains, [muxes EXCEPT ![i].middlewares = a.slice])
    /\ last' = Op("Use", i, 0)
    /\ UNCHANGED <<engines, requests, panicked>>

\* d := muxes[i].With(xs...)
With(i, xs) ==
    /\ Running
    /\ Len(muxes) < MaxMuxes
    /\ muxes[i].middlewares.len + Len(xs) <= MaxMws
    /\ LET r == MuxWith(heap, muxes[i], i, xs)
       IN Commit(r.heap, chains, Append(muxes, r.mux))
    /\ last' = Op("With", i, Len(muxes) + 1)
    /\ UNCHANGED <<engines, requests, panicked>>

\* d := muxes[i].Group(fn): im := m.With(); if fn != nil { fn(im) }; return im
Group(i, fn) ==
    /\ Running
    /\ Len(muxes) < MaxMuxes
    /\ LET r == MuxWith(heap, muxes[i], i, <<>>)
       IN Commit(r.heap, chains, Append(muxes, [r.mux EXCEPT !.via = "Group"]))
    /\ last' = Op("Group", i, Len(muxes) + 1)
    /\ UNCHANGED <<engines, requests, panicked>>

\* d := muxes[i].Route(pattern, fn)
Route(i, pattern, fn) ==
    /\ Running
    /\ Len(muxes) < MaxMuxes
    /\ IF Len(pattern) = 0
       THEN \* pattern[len(pattern)-1] with len(pattern) = 0
            /\ panicked' = "index out of range"
            /\ last' = Op("Route", i, 0)
            /\ UNCHANGED <<heap, chains, muxes>>
       ELSE LET r == MuxWith(heap, muxes[i], i, <<>>) IN
            /\ Commit(r.heap, chains, Append(muxes,
                    [r.mux EXCEPT !.prefix = @ \o NormalizePattern(pattern),
                                  !.via = "Route", !.pattern = pattern]))
            /\ last' = Op("Route", i, Len(muxes) + 1)
            /\ UNCHANGED panicked
    /\ UNCHANGED <<engines, requests>>

\* chi's handle: a routing pattern must begin with '/'.
ChiAccepts(pattern) == Len(pattern) > 0 /\ pattern[1] = Slash

\* chi.Handle / chi.Method: a registration for every method or for one.
\* by records the instance that made it.
Registration(method, pattern, handler, by) ==
    [method |-> method, pattern |-> pattern, handler |-> handler, by |-> by]

Register(i, method, pattern, h, op) ==
    LET e == muxes[i].chi
        full == muxes[i].prefix \o pattern
    IN
    /\ Running
    /\ Len(engines[e].routes) < MaxRoutes
    /\ IF ChiAccepts(full)
       THEN /\ engines' = [engines EXCEPT ![e].routes = Append(@,
                    Registration(method, full, Registered(heap, muxes[i], h), i))]
            /\ UNCHANGED panicked
       ELSE /\ panicked' = "chi: routing pattern must begin with '/'"
            /\ UNCHANGED engines
    /\ last' = Op(op, i, 0)
    /\ UNCHANGED <<heap, chains, muxes, requests>>

\* muxes[i].Handle(pattern, h)  (HandleFunc is Handle)
Handle(i, pattern, h) == Register(i, "ANY", pattern, h, "Handle")

\* muxes[i].Method(method, pattern, h)  (MethodFunc, Get, Post, ... are Method)
Method(i, method, pattern, h) == Register(i, method, pattern, h, "Method")

\* The per-verb helpers and the value of the http.MethodX constant each passes.
Verbs == {"Connect", "Delete", "Get", "Head", "Options", "Patch", "Post", "Put", "Trace"}

VerbMethod(verb) ==
    CASE verb = "Connect" -> "CONNECT"
      [] verb = "Delete"  -> "DELETE"
      [] verb = "Get"     -> "GET"
      [] verb = "Head"    -> "HEAD"
      [] verb = "Options" -> "OPTIONS"
      [] verb = "Patch"   -> "PATCH"
      [] verb = "Post"    -> "POST"
      [] verb = "Put"     -> "PUT"
      [] verb = "Trace"   -> "TRACE"

\* muxes[i].Get(pattern, h), ...: m.Method(http.MethodGet, pattern, handlerFn)
Verb(i, verb, pattern, h) == Register(i, VerbMethod(verb), pattern, h, verb)

\* muxes[i].NotFound(h): m.chi.NotFound(adaptor(handlerFn))
NotFound(i, h) ==
    LET e == muxes[i].chi IN
    /\ Running
    /\ engines[e].hookCalls < MaxHookCalls
    /\ engines' = [engines EXCEPT ![e].notFound = h, ![e].nfArg = h,
                                  ![e].hookCalls = @ + 1]
    /\ last' = Op("NotFound", i, 0)
    /\ UNCHANGED <<heap, chains, muxes, requests, panicked>>

\* muxes[i].MethodNotAllowed(h): m.chi.NotFound(adaptor(handlerFn))
MethodNotAllowed(i, h) ==
    LET e == muxes[i].chi IN
    /\ Running
    /\ engines[e].hookCalls < MaxHookCalls
    /\ engines' = [engines EXCEPT ![e].notFound = h, ![e].mnaArg = h,
                                  ![e].hookCalls = @ + 1]
    /\ last' = Op("MethodNotAllowed", i, 0)
    /\ UNCHANGED <<heap, chains, muxes, requests, panicked>>

\* A path no pattern of the model equals.
S_nowhere == <<"/", "z">>

\* The paths of the requests sent to engine e.
RequestPaths(e) ==
    {engines[e].routes[k].pattern : k \in 1..Len(engines[e].routes)} \cup {S_nowhere}

\* chi's routing of (method, path): which registration or hook serves it.  A
\* later registration of the same pattern and method replaces an earlier one.
Resolve(eng, method, path) ==
    LET onPath == {k \in 1..Len(eng.routes) : eng.routes[k].pattern = path}
        onMethod == {k \in onPath : eng.routes[k].method \in {"ANY", method}}
    IN IF onPath = {} THEN [to |-> "notFound"]
       ELSE IF onMethod = {} THEN [to |-> "methodNotAllowed"]
       ELSE [to |-> "route", k |-> CHOOSE k \in onMethod : \A j \in onMethod : j <= k]

\* The response of chi's built-in hooks: http.NotFound, and 405 with no body.
DefaultHookWrite(to) ==
    IF to = "notFound" THEN [by |-> "engine", code |-> 404, body |-> "404 page not found"]
    ELSE [by |-> "engine", code |-> 405, body |-> ""]

\* The http.HandlerFunc adaptor(next) applied to a request: next.ServeHTTP, then
\* the response writes for the error it returned.
Adapted(next) ==
    LET r == Serve(next, 1)
    IN [visits |-> r.visits, writes |-> r.writes \o adaptor(r.err), err |-> r.err]

\* muxes[i].ServeHTTP(w, r) for a request (method, path): m.chi.ServeHTTP(w, r),
\* which routes the request and calls the handler or hook it resolves to.
\* from records how the request was routed and the hook arguments at that time.
ServeHTTP(i, method, path) ==
    LET e == muxes[i].chi
        res == Resolve(engines[e], method, path)
        from == [resolved |-> res.to, method |-> method, path |-> path,
                 nfArg |-> engines[e].nfArg, mnaArg |-> engines[e].mnaArg]
        hook == IF res.to = "notFound" THEN engines[e].notFound
                ELSE engines[e].methodNotAllowed
    IN
    /\ Running
    /\ Len(requests) < MaxRequests
    /\ path \in RequestPaths(e)
    /\ requests' = Append(requests,
            IF res.to = "route"
            THEN Request(engines[e].routes[res.k].handler, from, "done",
                         Adapted(engines[e].routes[res.k].handler))
            ELSE IF hook = "default"
            THEN Request(EndHandler("default"), from, "done",
                         [visits |-> <<>>, writes |-> <<DefaultHookWrite(res.to)>>,
                          err |-> NoError])
            ELSE Request(EndHandler(hook), from, "done", Adapted(EndHandler(hook))))
    /\ last' = Op("ServeHTTP", i, Len(requests) + 1)
    /\ UNCHANGED <<heap, chains, muxes, engines, panicked>>

----------------------------------------------------------------------------
(* StripPrefix *)

\* strings.HasPrefix and strings.TrimPrefix
HasPrefix(s, prefix) ==
    Len(prefix) <= Len(s) /\ SubSeq(s, 1, Len(prefix)) = prefix

TrimPrefix(s, prefix) ==
    IF HasPrefix(s, prefix) THEN SubSeq(s, Len(prefix) + 1, Len(s)) ELSE s

\* http.NotFound, as http.StripPrefix calls it
StripNotFound == [by |-> "http.StripPrefix", code |-> 404, body |-> "404 page not found"]

\* A StripPrefix that loses what the inner handler returned.
StripPrefixDropsError(prefix, h, path) ==
    IF HasPrefix(path, prefix)
    THEN LET r == Serve(EndHandler(h), 1)
         IN [visits |-> r.visits, writes |-> r.writes, err |-> NoError,
             seen |-> <<TrimPrefix(path, prefix)>>]
    ELSE [visits |-> <<>>, writes |-> <<StripNotFound>>, err |-> NoError,
          seen |-> <<>>]

\* StripPrefix(prefix, h).ServeHTTP(w, r) for a request with r.URL.Path = path.
\* http.StripPrefix calls the handler it wraps, which sets err, with the
\* trimmed path when the path begins with prefix; otherwise it answers 404
\* itself and err keeps its zero value.  seen lists the paths h was called with.
StripPrefix(prefix, h, path) ==
    IF HasPrefix(path, prefix)
    THEN LET r == Serve(EndHandler(h), 1)
         IN [visits |-> r.visits, writes |-> r.writes, err |-> r.err,
             seen |-> <<TrimPrefix(path, prefix)>>]
    ELSE [visits |-> <<>>, writes |-> <<StripNotFound>>, err |-> NoError,
          seen |-> <<>>]

StripPrefixes == {S_v1 \o <<Slash>>, S_api}

StripPaths == {S_v1 \o S_u, S_v1, S_api, S_u}

\* hh := StripPrefix(prefix, h); hh.ServeHTTP(w, r) with r.URL.Path = path
CallStripPrefix(prefix, h, path) ==
    LET r == StripPrefix(prefix, h, path) IN
    /\ Running
    /\ Len(requests) < MaxBuilt
    /\ requests' = Append(requests,
            [handler |-> EndHandler(h),
             from |-> [prefix |-> prefix, path |-> path, h |-> h],
             pc |-> "done", visits |-> r.visits, writes |-> r.writes,
             err |-> r.err, seen |-> r.seen])
    /\ last' = Op("StripPrefix", 0, Len(requests) + 1)
    /\ UNCHANGED <<heap, chains, muxes, engines, panicked>>

----------------------------------------------------------------------------
(* Serving step by step, several requests at a time *)

\* m.chi.ServeHTTP(w, r) up to the call of the handler or hook the request
\* resolves to; chi's built-in hooks answer at once.  The next middleware of a
\* request in the chain is the one after those it has entered.
Dispatch(i, method, path) ==
    LET e == muxes[i].chi
        res == Resolve(engines[e], method, path)
        from == [resolved |-> res.to, method |-> method, path |-> path, mux |-> i]
        hook == IF res.to = "notFound" THEN engines[e].notFound
                ELSE engines[e].methodNotAllowed
    IN
    /\ Running
    /\ Len(requests) < MaxInFlight
    /\ path \in RequestPaths(e)
    /\ requests' = Append(requests,
            IF res.to = "route"
            THEN Request(engines[e].routes[res.k].handler, from, "chain", NoResult)
            ELSE IF hook = "default"
            THEN Request(EndHandler("default"), from, "done",
                         [visits |-> <<>>, writes |-> <<DefaultHookWrite(res.to)>>,
                          err |-> NoError])
            ELSE Request(EndHandler(hook), from, "chain", NoResult))
    /\ last' = Op("Dispatch", i, Len(requests) + 1)
    /\ UNCHANGED <<heap, chains, muxes, engines, panicked>>

\* Control of request k enters its next middleware, or past the last one its
\* end handler.  A middleware that calls next passes on what next returns, so
\* the value the adaptor gets is set by the handler or by the middleware that
\* returns without calling next.
Enter(k) ==
    LET r == requests[k]
        pos == Len(r.visits) + 1
    IN
    /\ Running
    /\ r.pc = "chain"
    /\ requests' = [requests EXCEPT ![k] =
            IF pos > Len(r.handler.mws)
            THEN [r EXCEPT !.visits = Append(@, r.handler.h),
                           !.writes = @ \o HandlerWrites(r.handler.h),
                           !.err = HandlerReturn(r.handler.h),
                           !.pc = "adaptor"]
            ELSE IF MiddlewareCallsNext(r.handler.mws[pos])
            THEN [r EXCEPT !.visits = Append(@, r.handler.mws[pos])]
            ELSE [r EXCEPT !.visits = Append(@, r.handler.mws[pos]),
                           !.err = MiddlewareReturn(r.handler.mws[pos]),
                           !.pc = "adaptor"]]
    /\ last' = Op("Enter", k, 0)
    /\ UNCHANGED <<heap, chains, muxes, engines, panicked>>

\* The requests whose handler has returned.
Returned == {j \in 1..Len(requests) : requests[j].pc \in {"adaptor", "done"}}

\* An adaptor whose err is one variable for all requests: it acts on the
\* error of the latest request whose handler has returned.
AdaptorStepShared(k) ==
    LET j == CHOOSE n \in Returned : \A o \in Returned : o <= n IN
    /\ Running
    /\ requests[k].pc = "adaptor"
    /\ requests' = [requests EXCEPT ![k].writes = @ \o adaptor(requests[j].err),
                                    ![k].pc = "done"]
    /\ last' = Op("Adaptor", k, 0)
    /\ UNCHANGED <<heap, chains, muxes, engines, panicked>>

\* The adaptor of request k acts on the error next.ServeHTTP returned to it.
AdaptorStep(k) ==
    /\ Running
    /\ requests[k].pc = "adaptor"
    /\ requests' = [requests EXCEPT ![k].writes = @ \o adaptor(requests[k].err),
                                    ![k].pc = "done"]
    /\ last' = Op("Adaptor", k, 0)
    /\ UNCHANGED <<heap, chains, muxes, engines, panicked>>

----------------------------------------------------------------------------
(* Specifications *)

\* The caller builds chains, composes handlers with Then and invokes them.
NextChain ==
    \/ \E xs \in ChainArgs, spare \in {0, 1} : CallNewChain(xs, spare)
    \/ \E i \in 1..Len(chains), xs \in ChainArgs : CallAppend(i, xs)
    \/ \E i \in 1..Len(chains), j \in 1..Len(chains) : CallExtend(i, j)
    \/ \E i \in 1..Len(chains), h \in {"hRedirect"} : CallThen(i, h)
    \/ \E k \in 1..Len(requests) : Invoke(k)

SpecChain == Init /\ [][NextChain]_vars

\* Set-up: the caller derives routers, extends their middleware lists and
\* registers routes through them.
NextSetup ==
    \/ CallNewMux
    \/ \E i \in 1..Len(muxes), xs \in UseArgs : Use(i, xs, MaxMws)
    \/ \E i \in 1..Len(muxes), xs \in WithArgs : With(i, xs)
    \/ \E i \in 1..Len(muxes), fn \in Fns : Group(i, fn)
    \/ \E i \in 1..Len(muxes), fn \in Fns : Route(i, S_v1, fn)
    \/ \E i \in 1..Len(muxes) : Handle(i, S_u, "hRedirect")
    \/ \E i \in 1..Len(muxes) : Method(i, "GET", S_u, "hRedirect")

Spec == Init /\ [][NextSetup]_vars

\* Set-up of nested routers: prefixes and the patterns registered under them.
NextPrefix ==
    \/ CallNewMux
    \/ \E i \in 1..Len(muxes) : With(i, <<>>)
    \/ \E i \in 1..Len(muxes), fn \in Fns : Group(i, fn)
    \/ \E i \in 1..Len(muxes), p \in RoutePatterns, fn \in Fns : Route(i, p, fn)
    \/ \E i \in 1..Len(muxes), p \in HandlePatterns : Handle(i, p, "hRedirect")
    \/ \E i \in 1..Len(muxes), p \in HandlePatterns : Method(i, "GET", p, "hRedirect")

SpecPrefix == Init /\ [][NextPrefix]_vars

\* Serving: a router with middlewares and routes, and the requests it serves.
NextServe ==
    \/ CallNewMux
    \/ \E i \in 1..Len(muxes), xs \in ServeUseArgs : Use(i, xs, 2)
    \/ \E i \in 1..Len(muxes), h \in Handlers : Handle(i, S_u, h)
    \/ \E i \in 1..Len(muxes), m \in Methods, h \in Handlers : Method(i, m, S_u, h)
    \/ \E i \in 1..Len(muxes), m \in Methods :
            \E p \in RequestPaths(muxes[i].chi) : ServeHTTP(i, m, p)

SpecServe == Init /\ [][NextServe]_vars

\* Serving with custom hooks for unmatched paths and unmatched methods.
NextHooks ==
    \/ CallNewMux
    \/ \E i \in 1..Len(muxes) : Method(i, "GET", S_u, "hRedirect")
    \/ \E i \in 1..Len(muxes), h \in {"hNotFound", "hTeapot"} : NotFound(i, h)
    \/ \E i \in 1..Len(muxes), h \in {"hNotFound", "hTeapot"} : MethodNotAllowed(i, h)
    \/ \E i \in 1..Len(muxes), m \in Methods :
            \E p \in RequestPaths(muxes[i].chi) : ServeHTTP(i, m, p)

SpecHooks == Init /\ [][NextHooks]_vars

\* Registration: routers with prefixes and middlewares, and every way to
\* register a handler through them.
NextRegister ==
    \/ CallNewMux
    \/ \E i \in 1..Len(muxes) : Use(i, <<"m1", "m2">>, 2)
    \/ muxes /= <<>> /\ Route(1, S_v1, "nil")
    \/ \E i \in 1..Len(muxes), p \in HandlePatterns : Handle(i, p, "hRedirect")
    \/ \E i \in 1..Len(muxes), m \in Methods, p \in HandlePatterns :
            Method(i, m, p, "hRedirect")
    \/ \E i \in 1..Len(muxes), v \in Verbs : Verb(i, v, S_x, "hRedirect")

SpecRegister == Init /\ [][NextRegister]_vars

\* A chain made from a slice of the caller's, the chains derived from it, and
\* the caller's later writes to that slice.
NextAlias ==
    \/ \E xs \in ChainArgs, spare \in {0, 1} : NewChainOfSlice(xs, spare)
    \/ \E i \in 1..Len(chains) : CallAppend(i, <<"m2">>)
    \/ \E i \in 1..Len(chains), j \in 1..Len(chains) : CallExtend(i, j)
    \/ \E i \in 1..Len(chains) : CallThen(i, "hRedirect")
    \/ \E k \in 1..Len(requests) : Invoke(k)
    \/ \E k \in 1..MaxChainLen, m \in PassMiddlewares : CallerWrite(k, m)

SpecAlias == Init /\ [][NextAlias]_vars

\* Reuse: the caller builds several handlers with Then, from the same chain or
\* from different ones, and invokes them in any order.
NextReuse ==
    \/ \E xs \in ChainArgs : CallNewChain(xs, 0)
    \/ \E i \in 1..Len(chains), h \in {"hRedirect", "hNotFound"} : ThenCall(i, h, MaxBuilt)
    \/ \E k \in 1..Len(requests) : Invoke(k)

SpecReuse == Init /\ [][NextReuse]_vars

\* Requests served by handlers StripPrefix returned.
NextStrip ==
    \E prefix \in StripPrefixes, h \in Handlers, path \in StripPaths :
        CallStripPrefix(prefix, h, path)

SpecStrip == Init /\ [][NextStrip]_vars

\* Two roots, the routers derived from them, routes registered through any of
\* them and requests served through any of them.
NextShare ==
    \/ CallNewMux
    \/ NewMuxAgain
    \/ \E i \in 1..Len(muxes) : With(i, <<>>)
    \/ \E i \in 1..Len(muxes) : Route(i, S_v1, "nil")
    \/ \E i \in 1..Len(muxes) : Handle(i, S_u, "hNotFound")
    \/ \E i \in 1..Len(muxes) :
            \E p \in RequestPaths(muxes[i].chi) : ServeHTTP(i, "GET", p)

SpecShare == Init /\ [][NextShare]_vars

\* Set-up of one router, which ends when the first request arrives; then
\* requests are served concurrently, their steps interleaved in any order.
NextConcurrent ==
    \/ /\ requests = <<>>
       /\ \/ CallNewMux
          \/ \E i \in 1..Len(muxes), xs \in {<<"m1">>, <<"mDeny">>} : Use(i, xs, 2)
          \/ \E i \in 1..Len(muxes), h \in {"hRedirect", "hNotFound"} : Handle(i, S_u, h)
    \/ \E i \in 1..Len(muxes) : \E p \in RequestPaths(muxes[i].chi) : Dispatch(i, "GET", p)
    \/ \E k \in 1..Len(requests) : Enter(k)
    \/ \E k \in 1..Len(requests) : AdaptorStep(k)

SpecConcurrent == Init /\ [][NextConcurrent]_vars

----------------------------------------------------------------------------
(* Properties *)

\* The writes the adaptor made on a request's response.
AdaptorWrites(r) == SelectSeq(r.writes, LAMBDA w : w.by = "adaptor")

\* The requests the engine routed to a registered handler and that were served.
Routed == {k \in 1..Len(requests) :
            requests[k].pc = "done" /\ requests[k].from.resolved = "route"}

\* C1: a registered handler that returns an error with a status code s and
\* message msg leads to exactly one response write by the adaptor, with status
\* s and body msg, and no further (500) write.
C1_StatusErrorWrittenOnce ==
    \A k \in Routed :
        IsStatusError(requests[k].err) =>
            AdaptorWrites(requests[k]) =
                <<HttpError(requests[k].err.message, requests[k].err.status)>>

\* C2: a registered handler that returns an error without a status code leads
\* to exactly one response write by the adaptor: status 500, body the message.
C2_PlainErrorWritten500Once ==
    \A k \in Routed :
        requests[k].err.kind = "plain" =>
            AdaptorWrites(requests[k]) =
                <<HttpError(requests[k].err.message, InternalServerError)>>

C2_Witness ==
    \E k \in Routed :
        /\ requests[k].err = PlainError("boom")
        /\ Len(requests[k].handler.mws) > 0
        /\ Len(requests[k].writes) = 1

\* C3: when the handler returns no error the adaptor writes nothing: the
\* response holds exactly what the handler (and its middlewares) wrote.
C3_NoErrorNoAdaptorWrite ==
    \A k \in Routed :
        requests[k].err.kind = "nil" =>
            /\ AdaptorWrites(requests[k]) = <<>>
            /\ requests[k].writes = HandlerWrites(requests[k].handler.h)

C3_Witness ==
    \E k \in Routed :
        /\ requests[k].err.kind = "nil"
        /\ requests[k].handler.h = "hRedirect"
        /\ Len(requests[k].writes) = 1

\* The invocations of handlers that Then returned.
Invoked == {k \in 1..Len(requests) : requests[k].pc = "done"}

AllCallNext(list) == \A n \in 1..Len(list) : MiddlewareCallsNext(list[n])

\* C4: the handler Then(h) returns for a chain holding m1..mn, each of which
\* calls its next handler once, enters m1, ..., mn, h in this order, once each;
\* for an empty chain it is h itself.
C4_ThenVisitsInOrder ==
    /\ \A k \in Invoked :
            AllCallNext(requests[k].from.list) =>
                requests[k].visits = requests[k].from.list \o <<requests[k].from.h>>
    /\ \A k \in 1..Len(requests) :
            requests[k].from.list = <<>> =>
                requests[k].handler = EndHandler(requests[k].from.h)

C4_Witness ==
    \E k \in Invoked :
        /\ requests[k].from.list = <<"m1", "m2">>
        /\ requests[k].visits = <<"m1", "m2", requests[k].from.h>>

\* C5: Append and Extend leave the receiver as it was, and so every chain that
\* exists: in every step each chain holds the list it held before the step.
C5_AppendExtendKeepChains ==
    [][\A i \in 1..Len(chains) :
            Contents(heap', chains'[i].middlewares) = Contents(heap, chains[i].middlewares)]_vars

\* Two chains were appended to one receiver whose array had room for more.
C5_Witness ==
    /\ last.op \in {"Append", "Extend"}
    /\ \E c \in 1..Len(chains) :
        /\ c /= last.made
        /\ Len(Contents(heap, chains[c].middlewares))
                = Len(Contents(heap, chains[last.made].middlewares))
        /\ Contents(heap, chains[c].middlewares)
                /= Contents(heap, chains[last.made].middlewares)
        /\ Cap(heap, chains[last.recv].middlewares) > chains[last.recv].middlewares.len
        /\ Contents(heap, chains[c].middlewares)[1] = Contents(heap, chains[last.recv].middlewares)[1]

\* The list a router holds, and the routes an instance registered.
List(h, m) == Contents(h, m.middlewares)

RoutesBy(i) ==
    {k \in 1..Len(engines[muxes[i].chi].routes) : engines[muxes[i].chi].routes[k].by = i}

\* C6: after d = r.With(x), a Use on r leaves d's list as it was, and leaves
\* the handlers registered through d as they were.
C6_UseLeavesWithCopies ==
    [][last'.op = "Use" =>
        \A d \in 1..Len(muxes) :
            (muxes[d].parent = last'.recv /\ muxes[d].via = "With") =>
                /\ List(heap', muxes'[d]) = List(heap, muxes[d])
                /\ \A k \in RoutesBy(d) :
                        engines'[muxes[d].chi].routes[k] = engines[muxes[d].chi].routes[k]]_vars

\* r.Use acted after d = r.With(x) was derived and had registered a route.
C6_Witness ==
    /\ last.op = "Use"
    /\ \E d \in 1..Len(muxes) :
        /\ muxes[d].parent = last.recv
        /\ muxes[d].via = "With"
        /\ RoutesBy(d) /= {}
        /\ List(heap, muxes[d]) = <<"m1", "m2">>
        /\ List(heap, muxes[last.recv]) = <<"m1", "m1">>

\* C7: an operation on a derived instance d (Use, or a derivation such as
\* Route) leaves the list and the prefix of every other instance as they were.
C7_DerivedLeavesOthers ==
    [][\A d \in 1..Len(muxes) :
        (last'.recv = d /\ last'.op \in {"Use", "With", "Group", "Route"}
                /\ muxes[d].parent /= 0) =>
            \A j \in 1..Len(muxes) :
                j /= d =>
                    /\ List(heap', muxes'[j]) = List(heap, muxes[j])
                    /\ muxes'[j].prefix = muxes[j].prefix]_vars

\* Use acted on a derived instance that has a sibling; its list then differs
\* from its parent's and from its sibling's.
C7_Witness ==
    /\ last.op = "Use"
    /\ last.recv > 1
    /\ \E j \in 1..Len(muxes) :
        /\ j /= last.recv
        /\ muxes[j].parent = muxes[last.recv].parent
        /\ muxes[j].via = "Route"
        /\ List(heap, muxes[j]) /= List(heap, muxes[last.recv])
    /\ List(heap, muxes[muxes[last.recv].parent]) /= List(heap, muxes[last.recv])

EndsWithSlash(p) == IF p[Len(p)] = Slash THEN p ELSE p \o <<Slash>>

RECURSIVE PathOf(_)
\* The Route patterns on the derivation path of instance i, root first, each
\* ending with '/'.
PathOf(i) ==
    IF muxes[i].parent = 0 THEN <<>>
    ELSE IF muxes[i].via = "Route"
    THEN PathOf(muxes[i].parent) \o EndsWithSlash(muxes[i].pattern)
    ELSE PathOf(muxes[i].parent)

\* Route("/api", ...) on an instance made by Route("/v1", ...) on the root,
\* either pattern with or without a trailing '/'.
ApiInV1 ==
    {i \in 1..Len(muxes) :
        /\ muxes[i].via = "Route"
        /\ muxes[i].pattern \in {S_api, S_api \o <<Slash>>}
        /\ muxes[i].parent /= 0
        /\ muxes[muxes[i].parent].via = "Route"
        /\ muxes[muxes[i].parent].pattern \in {S_v1, S_v1 \o <<Slash>>}
        /\ muxes[muxes[i].parent].parent = 1}

\* C8 as stated: every prefix is the concatenation of the normalised Route
\* patterns on the derivation path, and "/api" inside "/v1" gives "/v1/api/".
C8_PrefixAsStated ==
    /\ \A i \in 1..Len(muxes) : muxes[i].prefix = PathOf(i)
    /\ \A i \in ApiInV1 : muxes[i].prefix = S_v1 \o S_api \o <<Slash>>

\* C8 (amended): every prefix is the concatenation of the normalised Route
\* patterns on the derivation path (With and Group add nothing), and "/api"
\* inside "/v1" gives "/v1//api/": the inner pattern's leading '/' follows the
\* '/' that ends the outer one.
C8_PrefixIsConcatenation ==
    /\ \A i \in 1..Len(muxes) : muxes[i].prefix = PathOf(i)
    /\ \A i \in ApiInV1 : muxes[i].prefix = S_v1 \o <<Slash>> \o S_api \o <<Slash>>

C8_Witness ==
    \E i \in ApiInV1 :
        /\ muxes[i].pattern = S_api
        /\ muxes[muxes[i].parent].pattern = S_v1 \o <<Slash>>
        /\ muxes[i].prefix = <<"/", "v", "1", "/", "/", "a", "p", "i", "/">>

\* C9: a registration is wrapped by the list its instance holds when it is
\* made, and no later step (a Use in particular) changes a registration.
C9_UseNotRetroactive ==
    [][\A e \in 1..Len(engines) :
        \A k \in 1..Len(engines'[e].routes) :
            IF k <= Len(engines[e].routes)
            THEN engines'[e].routes[k] = engines[e].routes[k]
            ELSE engines'[e].routes[k].handler.mws
                    = List(heap, muxes[engines'[e].routes[k].by])]_vars

\* Use acted on an instance after it registered a route: the route is wrapped
\* by a shorter list than the instance now holds.
C9_Witness ==
    /\ last.op = "Use"
    /\ \E k \in RoutesBy(last.recv) :
        /\ engines[muxes[last.recv].chi].routes[k].handler.mws = <<"m1">>
        /\ List(heap, muxes[last.recv]) = <<"m1", "m1">>

\* The handler of a hook: the argument of the latest call, or chi's built-in.
HookHandler(arg) == IF arg = "none" THEN "default" ELSE arg

\* C10: a request whose path matches no pattern is served by the handler of
\* the latest NotFound call, and one whose path matches but whose method does
\* not by the handler of the latest MethodNotAllowed call.
C10_HooksAreDistinct ==
    \A k \in 1..Len(requests) :
        /\ requests[k].from.resolved = "notFound" =>
                requests[k].handler.h = HookHandler(requests[k].from.nfArg)
        /\ requests[k].from.resolved = "methodNotAllowed" =>
                requests[k].handler.h = HookHandler(requests[k].from.mnaArg)

\* The step added to the engine of instance i exactly the registration of h
\* for method under i's prefix followed by p, wrapped in i's middlewares in
\* order, and changed no other engine.
AddsOne(i, method, p, h) ==
    LET e == muxes[i].chi IN
    /\ engines'[e].routes = Append(engines[e].routes,
            [method |-> method, pattern |-> muxes[i].prefix \o p,
             handler |-> [mws |-> List(heap, muxes[i]), h |-> h], by |-> i])
    /\ \A f \in 1..Len(engines) : f /= e => engines'[f] = engines[f]
    /\ Len(engines') = Len(engines)

\* C11: Handle(pattern, h) and Method(method, pattern, h) on an instance with
\* prefix P and middlewares m1..mn add exactly one registration to the shared
\* engine, with pattern P+pattern and handler m1(m2(...mn(h))): Handle for
\* every method, Method for the given one; Get, Post, ... add what Method adds
\* for their verb.
C11_RegistersOne ==
    [][\A i \in {last'.recv} \cap (1..Len(muxes)), p \in HandlePatterns, h \in Handlers :
        /\ (last'.op = "Handle" /\ Handle(i, p, h) /\ Running') => AddsOne(i, "ANY", p, h)
        /\ \A m \in Methods :
            (last'.op = "Method" /\ Method(i, m, p, h) /\ Running') => AddsOne(i, m, p, h)
        /\ (last'.op = "Connect" /\ Verb(i, "Connect", p, h) /\ Running') => AddsOne(i, "CONNECT", p, h)
        /\ (last'.op = "Delete" /\ Verb(i, "Delete", p, h) /\ Running') => AddsOne(i, "DELETE", p, h)
        /\ (last'.op = "Get" /\ Verb(i, "Get", p, h) /\ Running') => AddsOne(i, "GET", p, h)
        /\ (last'.op = "Head" /\ Verb(i, "Head", p, h) /\ Running') => AddsOne(i, "HEAD", p, h)
        /\ (last'.op = "Options" /\ Verb(i, "Options", p, h) /\ Running') => AddsOne(i, "OPTIONS", p, h)
        /\ (last'.op = "Patch" /\ Verb(i, "Patch", p, h) /\ Running') => AddsOne(i, "PATCH", p, h)
        /\ (last'.op = "Post" /\ Verb(i, "Post", p, h) /\ Running') => AddsOne(i, "POST", p, h)
        /\ (last'.op = "Put" /\ Verb(i, "Put", p, h) /\ Running') => AddsOne(i, "PUT", p, h)
        /\ (last'.op = "Trace" /\ Verb(i, "Trace", p, h) /\ Running') => AddsOne(i, "TRACE", p, h)]_vars

\* Trace registered a handler through a router made by Route that has two
\* middlewares.
C11_Witness ==
    /\ last.op = "Trace"
    /\ Running
    /\ \E e \in 1..Len(engines) : \E k \in 1..Len(engines[e].routes) :
        /\ engines[e].routes[k].by = last.recv
        /\ engines[e].routes[k].method = "TRACE"
        /\ engines[e].routes[k].pattern = <<"/", "v", "1", "/", "x">>
        /\ engines[e].routes[k].handler.mws = <<"m1", "m2">>

\* C13: a chain is immutable once created: in every step, whatever the
\* operation (Then, Append, Extend, or a write by the caller to the slice it
\* passed to NewChain), every chain composes the same middlewares in the same
\* order as before the step.
C13_ChainImmutable ==
    [][\A i \in 1..Len(chains) :
            Then(heap', chains'[i], EndHandler("hRedirect"))
                = Then(heap, chains[i], EndHandler("hRedirect"))]_vars

\* The positions of the middlewares of list that return without calling next.
Stops(list) == {n \in 1..Len(list) : ~MiddlewareCallsNext(list[n])}

\* C14: the middlewares of a registered handler run in list order, each
\* entered once.  When mi is the first that returns without calling next,
\* exactly m1..mi were entered, in this order, neither a later middleware nor
\* the handler ran, and the error mi returned is the one the adaptor received
\* and wrote.
C14_ShortCircuit ==
    \A k \in Routed :
        LET r == requests[k]
            mws == r.handler.mws
        IN IF Stops(mws) = {}
           THEN r.visits = mws \o <<r.handler.h>>
           ELSE LET i == CHOOSE n \in Stops(mws) : \A j \in Stops(mws) : n <= j
                IN /\ r.visits = SubSeq(mws, 1, i)
                   /\ r.err = MiddlewareReturn(mws[i])
                   /\ \A w \in 1..Len(r.writes) : r.writes[w].by = "adaptor"
                   /\ r.writes[1] = HttpError(r.err.message, r.err.status)

\* m1 called next, mDeny after it did not, and the adaptor answered 401.
C14_Witness ==
    \E k \in Routed :
        /\ requests[k].handler.mws = <<"m1", "mDeny">>
        /\ requests[k].visits = <<"m1", "mDeny">>
        /\ requests[k].writes[1].code = 401

\* The chain the step made holds list, and the handler its Then returns for h
\* enters list's middlewares in order and then h.
MadeHolds(list, h) ==
    LET c == chains'[Len(chains')] IN
    /\ Len(chains') = Len(chains) + 1
    /\ Contents(heap', c.middlewares) = list
    /\ AllCallNext(list) =>
            Serve(Then(heap', c, EndHandler(h)), 1).visits = list \o <<h>>

\* C15: C.Append(x1..xk) holds C's list followed by x1..xk; C.Extend(D) holds
\* what C.Append(D's list) holds; the handler C.Extend(D).Then(h) enters C's
\* middlewares, then D's, then h.
C15_AppendExtendConcatenate ==
    [][\A i \in {last'.recv} \cap (1..Len(chains)) :
        /\ \A xs \in ChainArgs :
            (last'.op = "Append" /\ CallAppend(i, xs)) =>
                MadeHolds(Contents(heap, chains[i].middlewares) \o xs, "hRedirect")
        /\ \A j \in 1..Len(chains) :
            (last'.op = "Extend" /\ CallExtend(i, j)) =>
                /\ MadeHolds(Contents(heap, chains[i].middlewares)
                                \o Contents(heap, chains[j].middlewares), "hRedirect")
                /\ Contents(heap', chains'[Len(chains')].middlewares)
                    = Contents(ChainAppend(heap, chains[i],
                                    Contents(heap, chains[j].middlewares)).heap,
                               ChainAppend(heap, chains[i],
                                    Contents(heap, chains[j].middlewares)).chain.middlewares)]_vars

\* Extend joined two chains that hold different middlewares.
C15_Witness ==
    /\ last.op = "Extend"
    /\ Contents(heap, chains[last.recv].middlewares) = <<"m1">>
    /\ Contents(heap, chains[last.made].middlewares) = <<"m1", "m2">>

\* The elements of a sequence.
Range(seq) == {seq[n] : n \in 1..Len(seq)}

\* C16: handlers built by Then from one chain for different end handlers do
\* not affect each other: each wraps its own end handler in the chain's list,
\* when invoked ends in its own end handler and never enters the other's, and
\* the chain holds after every Then call the list it held at the call.
C16_ThenReuseIsClean ==
    /\ \A k \in 1..Len(requests) :
        requests[k].from.list
            = Contents(heap, chains[requests[k].from.chain].middlewares)
    /\ \A k1 \in 1..Len(requests), k2 \in 1..Len(requests) :
        LET r1 == requests[k1]
            r2 == requests[k2]
        IN (r1.from.chain = r2.from.chain /\ r1.from.h /= r2.from.h) =>
            /\ r1.handler = [mws |-> r1.from.list, h |-> r1.from.h]
            /\ r1.handler.mws = r2.handler.mws
            /\ r1.pc = "done" =>
                /\ r1.visits[Len(r1.visits)] = r1.from.h
                /\ r2.from.h \notin Range(r1.visits)

\* One chain with a middleware gave two handlers for different end handlers;
\* the second one built was invoked first, then the first.
C16_Witness ==
    /\ Len(requests) = 2
    /\ requests[1].from.chain = requests[2].from.chain
    /\ requests[1].from.list = <<"m1">>
    /\ requests[1].from.h = "hRedirect" /\ requests[2].from.h = "hNotFound"
    /\ requests[1].pc = "done" /\ requests[2].pc = "done"
    /\ last = Op("Invoke", 1, 0)

\* C17: Route accepts every pattern, the empty string included: the call does
\* not panic, and it returns a new instance whose prefix is the receiver's
\* prefix followed by the pattern, with '/' appended when the pattern does not
\* end with it.
C17_RouteAcceptsEveryPattern ==
    last.op = "Route" =>
        /\ Running
        /\ last.made \in 1..Len(muxes)
        /\ LET p == muxes[last.made].pattern
           IN muxes[last.made].prefix
                = muxes[last.recv].prefix
                    \o (IF Len(p) > 0 /\ p[Len(p)] = Slash THEN p ELSE p \o <<Slash>>)

\* C18 as stated: for every request the handler StripPrefix(prefix, inner)
\* returned invokes inner once, with the path without the prefix, and returns
\* what inner returns; it never returns no error after answering the request
\* with an error response of its own.
C18_StripPrefixAsStated ==
    \A k \in 1..Len(requests) :
        LET r == requests[k] IN
        /\ r.visits = <<r.from.h>>
        /\ Len(r.seen) = 1
        /\ r.from.prefix \o r.seen[1] = r.from.path
        /\ r.err = HandlerReturn(r.from.h)
        /\ ~(r.err = NoError /\ \E w \in 1..Len(r.writes) :
                                    r.writes[w].by = "http.StripPrefix")

\* C18: for a request whose path begins with prefix, the handler
\* StripPrefix(prefix, inner) returned invokes inner once, with the path without
\* the prefix, and returns what inner returns, and writes nothing itself; for
\* any other request it does not invoke inner, answers 404 itself and returns
\* no error.
C18_StripPrefixOnPrefixedPaths ==
    \A k \in 1..Len(requests) :
        LET r == requests[k]
            n == Len(r.from.prefix)
        IN IF n <= Len(r.from.path) /\ \A c \in 1..n : r.from.path[c] = r.from.prefix[c]
           THEN /\ r.visits = <<r.from.h>>
                /\ Len(r.seen) = 1
                /\ r.from.prefix \o r.seen[1] = r.from.path
                /\ r.err = HandlerReturn(r.from.h)
                /\ r.writes = HandlerWrites(r.from.h)
           ELSE /\ r.visits = <<>>
                /\ r.seen = <<>>
                /\ r.err = NoError
                /\ Len(r.writes) = 1 /\ r.writes[1].code = 404

\* Two requests through StripPrefix("/v1/", inner) with an inner handler that
\* fails: "/v1/u", which inner saw as "u", and "/u", which inner never saw.
C18_Witness ==
    \E k1 \in 1..Len(requests), k2 \in 1..Len(requests) :
        /\ requests[k1].from = [prefix |-> <<"/", "v", "1", "/">>,
                                path |-> <<"/", "v", "1", "/", "u">>, h |-> "hTeapot"]
        /\ requests[k1].seen = <<(<<"u">>)>>
        /\ requests[k1].err = Error(418, "teapot")
        /\ requests[k2].from = [prefix |-> <<"/", "v", "1", "/">>,
                                path |-> S_u, h |-> "hTeapot"]
        /\ requests[k2].err = NoError

\* The root a router was derived from.
RECURSIVE RootOf(_)
RootOf(i) == IF muxes[i].parent = 0 THEN i ELSE RootOf(muxes[i].parent)

\* C19: the routers derived from one root share that root's engine: every
\* route registered through an instance is in the table of its root's engine,
\* and a request served through an instance is dispatched on that table, to
\* what the root's ServeHTTP dispatches it to.  Different roots have
\* different engines.
C19_DerivedShareEngine ==
    /\ \A i \in 1..Len(muxes) : muxes[i].chi = muxes[RootOf(i)].chi
    /\ \A i \in 1..Len(muxes), j \in 1..Len(muxes) :
        (RootOf(i) /= RootOf(j)) => muxes[i].chi /= muxes[j].chi
    /\ \A e \in 1..Len(engines) : \A k \in 1..Len(engines[e].routes) :
        e = muxes[RootOf(engines[e].routes[k].by)].chi
    /\ last.op = "ServeHTTP" =>
        LET r == requests[last.made]
            eng == engines[muxes[RootOf(last.recv)].chi]
            res == Resolve(eng, r.from.method, r.from.path)
        IN /\ r.from.resolved = res.to
           /\ res.to = "route" => r.handler = eng.routes[res.k].handler

\* A request served through the second root reached a route that was
\* registered through a router derived from that root, while the first root's
\* engine has no route.
C19_Witness ==
    /\ last.op = "ServeHTTP"
    /\ muxes[last.recv].parent = 0
    /\ muxes[last.recv].chi = 2
    /\ requests[last.made].from.resolved = "route"
    /\ engines[1].routes = <<>>
    /\ \E k \in 1..Len(engines[2].routes) :
        /\ muxes[engines[2].routes[k].by].parent = last.recv
        /\ engines[2].routes[k].pattern = requests[last.made].from.path

\* What request r gets when it is served alone, by the router it came
\* through, on the registration table as it is after the step.
ServedAlone(r) ==
    LET eng == engines'[muxes'[r.from.mux].chi]
        res == Resolve(eng, r.from.method, r.from.path)
    IN IF res.to = "route" THEN Adapted(eng.routes[res.k].handler)
       ELSE [visits |-> <<>>, writes |-> <<DefaultHookWrite(res.to)>>, err |-> NoError]

\* C20: serving is read-only on the routers: once a request has arrived, no
\* step changes a router's middleware list or prefix or the registration
\* table, and whatever the interleaving of the requests' steps, a request that
\* has been served entered the handlers, and got the response and the adaptor
\* writes, that it gets when served alone.
C20_ServingIsReadOnly ==
    [][requests' /= <<>> =>
        /\ heap' = heap /\ muxes' = muxes /\ engines' = engines
        /\ \A k \in 1..Len(requests') :
            requests'[k].pc = "done" =>
                /\ requests'[k].visits = ServedAlone(requests'[k]).visits
                /\ requests'[k].writes = ServedAlone(requests'[k]).writes
                /\ requests'[k].err = ServedAlone(requests'[k]).err]_vars

\* The second request was served to the end, with an error the adaptor wrote,
\* while the first was inside its middleware chain.
C20_Witness ==
    /\ Len(requests) = 2
    /\ requests[1].pc = "chain" /\ requests[1].visits = <<"m1">>
    /\ requests[2].pc = "done" /\ requests[2].from.resolved = "route"
    /\ requests[2].err = Error(404, "not found")
    /\ last = Op("Adaptor", 2, 0)

====
